---- MODULE Spec2Model ----
(***************************************************************************)
(* Model of NovusAromaEstoque (src/novusaromaestoque.py): an in-memory     *)
(* perfume inventory (self.perfumes) and sales ledger (self.vendas) with   *)
(* two id counters.  Every public method is one action; a method call runs *)
(* to completion (the class is single-threaded).                           *)
(*                                                                         *)
(* Python values that may be None are modelled as sequences of length at   *)
(* most one: <<>> is None and <<v>> is the value v.                        *)
(***************************************************************************)
EXTENDS Integers, Sequences, FiniteSets

VARIABLES perfumes, vendas, perfume_id_counter, vendas_id_counter,
          op, ret, exc, created, stockSet, negStock, caller

vars == <<perfumes, vendas, perfume_id_counter, vendas_id_counter,
          op, ret, exc, created, stockSet, negStock, caller>>

\* The fields of the NovusAromaEstoque object.
state == <<perfumes, vendas, perfume_id_counter, vendas_id_counter>>

\* History of the calls, kept for the properties only.
hist == <<created, stockSet, negStock>>

(***************************************************************************)
(* Bounds and input alphabets                                              *)
(***************************************************************************)
\* At most MaxPerfumes products are ever added and MaxVendas sales recorded;
\* a stock level stays within -MaxStock .. MaxStock.
MaxPerfumes == 2
MaxVendas == 2
MaxStock == 3

None == <<>>
Some(v) == <<v>>
Opt(S) == {None} \cup {Some(v) : v \in S}

\* The values a caller passes.  `caller' names one of the callers below and
\* never changes; each passes the plain values of PlainCaller except where
\* stated.  The u_ sets are the arguments of update_perfume (None: omitted).
PlainCaller ==
    [nomes |-> {"Sauvage"}, marcas |-> {"Dior"}, precos |-> {380},
     estoques |-> {2}, mls |-> {100}, categorias |-> {"Masculino"},
     imagens |-> {None},
     u_nomes |-> {None}, u_marcas |-> {None}, u_precos |-> {None},
     u_estoques |-> {None}, u_mls |-> {None}, u_categorias |-> {None},
     u_imagens |-> {None},
     ids |-> 1 .. (MaxPerfumes + 1), sale_ids |-> 1 .. (MaxPerfumes + 1),
     quantities |-> {1}, unit_prices |-> {Some(3)},
     customer_names |-> {Some("Ana")}, days |-> {"2026-11-04"}]

Inputs(c) ==
    CASE c = "catalog-zero" ->
           \* updates to the zero values of name and stock
           [PlainCaller EXCEPT !.u_nomes = {None, Some("")},
                               !.u_estoques = {None, Some(0)},
                               !.sale_ids = {1}]
      [] c = "catalog-price" ->
           \* updates of price and brand
           [PlainCaller EXCEPT !.u_precos = {None, Some(0)},
                               !.u_marcas = {None, Some("Chanel")},
                               !.sale_ids = {1}]
      [] c = "catalog-class" ->
           \* updates of volume, category and image
           [PlainCaller EXCEPT !.u_mls = {None, Some(0)},
                               !.u_categorias = {None, Some("Feminino")},
                               !.u_imagens = {None, Some("sauvage.png")},
                               !.sale_ids = {MaxPerfumes + 1}]
      [] c = "sales-rename" ->
           \* sales of one or two units of products that get renamed
           [PlainCaller EXCEPT !.u_nomes = {None, Some("Eau Sauvage")},
                               !.ids = {1, MaxPerfumes + 1},
                               !.quantities = {1, 2}]
      [] c = "sales-negative" ->
           \* stocks and quantities of both signs
           [PlainCaller EXCEPT !.estoques = {-1, 2},
                               !.u_estoques = {None, Some(-1)},
                               !.sale_ids = {1},
                               !.quantities = {-1, 1}]
      [] c = "sales-noprice" ->
           \* a unit price of None, which cannot be multiplied
           [PlainCaller EXCEPT !.sale_ids = {1},
                               !.quantities = {-1, 0, 1},
                               !.unit_prices = {None, Some(3)}]
      [] c = "stats" ->
           \* named, unnamed and anonymous customers on two days
           [PlainCaller EXCEPT !.ids = {1},
                               !.quantities = {2},
                               !.customer_names =
                                   {None, Some(""), Some("Ana"), Some("Bia")},
                               !.days = {"2026-11-03", "2026-11-04"}]

(***************************************************************************)
(* Helpers                                                                 *)
(***************************************************************************)
\* Index of the first perfume whose id is `id', 0 when there is none: the
\* linear scans of update_perfume, delete_perfume and get_perfume.
RECURSIVE IndexFrom(_, _, _)
IndexFrom(ps, id, i) ==
    IF i > Len(ps) THEN 0
    ELSE IF ps[i].id = id THEN i
    ELSE IndexFrom(ps, id, i + 1)

IndexOf(ps, id) == IndexFrom(ps, id, 1)

\* Faulty variant: list.pop() without the index, which removes the last element.
Pop_Last(s, i) == SubSeq(s, 1, Len(s) - 1)

\* list.pop(i)
Pop(s, i) == [k \in 1 .. (Len(s) - 1) |-> IF k < i THEN s[k] ELSE s[k + 1]]

\* Faulty variant: every customer name is counted.
Truthy_Always(x) == TRUE

\* Python truthiness of a customer name: None and "" are falsy.
Truthy(x) == x # None /\ x # Some("")

\* sum(...) over a list, left to right.
RECURSIVE SumEstoque(_)
SumEstoque(ps) ==
    IF ps = <<>> THEN 0 ELSE ps[1].estoque + SumEstoque(Tail(ps))

RECURSIVE SumValue(_)
SumValue(ps) ==
    IF ps = <<>> THEN 0 ELSE ps[1].preco * ps[1].estoque + SumValue(Tail(ps))

RECURSIVE SumTotal(_)
SumTotal(vs) ==
    IF vs = <<>> THEN 0 ELSE vs[1].total + SumTotal(Tail(vs))

RECURSIVE SumTotalOn(_, _)
SumTotalOn(vs, today) ==
    IF vs = <<>> THEN 0
    ELSE (IF vs[1].date = today THEN vs[1].total ELSE 0)
         + SumTotalOn(Tail(vs), today)

RECURSIVE SumQuantity(_)
SumQuantity(vs) ==
    IF vs = <<>> THEN 0 ELSE vs[1].quantity + SumQuantity(Tail(vs))

\* The loop that fills customer_names in get_sales_stats.
RECURSIVE CustomerNameSet(_)
CustomerNameSet(vs) ==
    IF vs = <<>> THEN {}
    ELSE LET rest == CustomerNameSet(SubSeq(vs, 1, Len(vs) - 1))
             sale == vs[Len(vs)]
         IN IF Truthy(sale.customerName)
            THEN rest \cup {sale.customerName}
            ELSE rest

(***************************************************************************)
(* Initial state: NovusAromaEstoque.__init__                               *)
(***************************************************************************)
Init ==
    /\ perfumes = <<>>
    /\ vendas = <<>>
    /\ perfume_id_counter = 1
    /\ vendas_id_counter = 1
    /\ op = "__init__"
    /\ ret = None
    /\ exc = "none"
    /\ created = <<>>
    /\ stockSet = {}
    /\ negStock = FALSE

InitCatalog ==
    Init /\ caller \in {"catalog-zero", "catalog-price", "catalog-class"}
InitSales ==
    Init /\ caller \in {"sales-rename", "sales-negative", "sales-noprice"}
InitStats == Init /\ caller = "stats"

(***************************************************************************)
(* Operations                                                              *)
(***************************************************************************)
\* float(preco), int(estoque) and int(ml) return a number argument of the
\* target type unchanged; the callers modelled here pass such numbers.
\* Faulty variant: the id is taken from the length of the list.
Perfume_ByLength(nome, marca, preco, estoque, ml, categoria, imagem) ==
    [id |-> Len(perfumes) + 1, nome |-> nome, marca |-> marca,
     preco |-> preco, estoque |-> estoque, ml |-> ml,
     categoria |-> categoria, imagem |-> imagem]

\* The dict add_perfume builds.
Perfume(nome, marca, preco, estoque, ml, categoria, imagem) ==
    [id |-> perfume_id_counter, nome |-> nome, marca |-> marca,
     preco |-> preco, estoque |-> estoque, ml |-> ml,
     categoria |-> categoria, imagem |-> imagem]

add_perfume(nome, marca, preco, estoque, ml, categoria, imagem) ==
    LET perfume == Perfume(nome, marca, preco, estoque, ml, categoria, imagem)
    IN /\ perfume_id_counter <= MaxPerfumes
       /\ perfumes' = Append(perfumes, perfume)
       /\ perfume_id_counter' = perfume_id_counter + 1
       /\ op' = "add_perfume"
       /\ ret' = Some(perfume)
       /\ exc' = "none"
       /\ created' = Append(created, [id |-> perfume.id, estoque |-> estoque])
       /\ negStock' = (negStock \/ estoque < 0)
       /\ UNCHANGED <<vendas, vendas_id_counter, stockSet>>

\* Faulty variant: `if nome:' in place of `if nome is not None:', for every field.
Overwritten_IfTruthy(p, nome, marca, preco, estoque, ml, categoria, imagem) ==
    [id |-> p.id,
     nome |-> IF nome # None /\ nome # Some("") THEN nome[1] ELSE p.nome,
     marca |-> IF marca # None /\ marca # Some("") THEN marca[1] ELSE p.marca,
     preco |-> IF preco # None /\ preco # Some(0) THEN preco[1] ELSE p.preco,
     estoque |-> IF estoque # None /\ estoque # Some(0)
                 THEN estoque[1] ELSE p.estoque,
     ml |-> IF ml # None /\ ml # Some(0) THEN ml[1] ELSE p.ml,
     categoria |-> IF categoria # None /\ categoria # Some("")
                   THEN categoria[1] ELSE p.categoria,
     imagem |-> IF imagem # None /\ imagem # Some("") THEN imagem ELSE p.imagem]

\* The body of the `if perfume['id'] == id' branch: a field is overwritten
\* when its argument is not None.
Overwritten(p, nome, marca, preco, estoque, ml, categoria, imagem) ==
    [id |-> p.id,
     nome |-> IF nome # None THEN nome[1] ELSE p.nome,
     marca |-> IF marca # None THEN marca[1] ELSE p.marca,
     preco |-> IF preco # None THEN preco[1] ELSE p.preco,
     estoque |-> IF estoque # None THEN estoque[1] ELSE p.estoque,
     ml |-> IF ml # None THEN ml[1] ELSE p.ml,
     categoria |-> IF categoria # None THEN categoria[1] ELSE p.categoria,
     imagem |-> IF imagem # None THEN imagem ELSE p.imagem]

update_perfume(id, nome, marca, preco, estoque, ml, categoria, imagem) ==
    LET i == IndexOf(perfumes, id)
    IN /\ op' = "update_perfume"
       /\ exc' = "none"
       /\ IF i = 0
          THEN /\ ret' = None
               /\ UNCHANGED <<state, hist>>
          ELSE LET perfume == Overwritten(perfumes[i], nome, marca, preco,
                                          estoque, ml, categoria, imagem)
               IN /\ perfumes' = [perfumes EXCEPT ![i] = perfume]
                  /\ ret' = Some(perfume)
                  /\ stockSet' = IF estoque # None
                                 THEN stockSet \cup {id} ELSE stockSet
                  /\ negStock' = (negStock \/ (estoque # None /\ estoque[1] < 0))
                  /\ UNCHANGED <<vendas, perfume_id_counter,
                                 vendas_id_counter, created>>

\* Faulty variant: the sales of the deleted product are deleted with it.
RECURSIVE SalesNotOf(_, _)
SalesNotOf(vs, id) ==
    IF vs = <<>> THEN <<>>
    ELSE IF vs[1].productId = id THEN SalesNotOf(Tail(vs), id)
    ELSE <<vs[1]>> \o SalesNotOf(Tail(vs), id)

delete_perfume_Cascade(id) ==
    LET i == IndexOf(perfumes, id)
    IN /\ op' = "delete_perfume"
       /\ exc' = "none"
       /\ IF i = 0
          THEN /\ ret' = None
               /\ UNCHANGED <<state, hist>>
          ELSE /\ perfumes' = Pop(perfumes, i)
               /\ vendas' = SalesNotOf(vendas, id)
               /\ ret' = Some(perfumes[i])
               /\ UNCHANGED <<perfume_id_counter, vendas_id_counter, hist>>

delete_perfume(id) ==
    LET i == IndexOf(perfumes, id)
    IN /\ op' = "delete_perfume"
       /\ exc' = "none"
       /\ IF i = 0
          THEN /\ ret' = None
               /\ UNCHANGED <<state, hist>>
          ELSE /\ perfumes' = Pop(perfumes, i)
               /\ ret' = Some(perfumes[i])
               /\ UNCHANGED <<vendas, perfume_id_counter, vendas_id_counter,
                              hist>>

\* The value get_perfume returns.
get_perfume(id) ==
    LET i == IndexOf(perfumes, id)
    IN IF i = 0 THEN None ELSE Some(perfumes[i])

call_get_perfume(id) ==
    /\ op' = "get_perfume"
    /\ exc' = "none"
    /\ ret' = get_perfume(id)
    /\ UNCHANGED <<state, hist>>

\* The sale record add_venda builds; the optional arguments take the
\* defaults of the signature.
SaleWith(product, product_id, quantity, unit_price, customer_name, now, total) ==
    [id |-> vendas_id_counter,
     productId |-> product_id,
     productName |-> product.nome,
     productBrand |-> product.marca,
     quantity |-> quantity,
     unitPrice |-> unit_price[1],
     total |-> total,
     customerName |-> customer_name,
     customerPhone |-> None,
     customerInstagram |-> None,
     customerEmail |-> None,
     postedInstagram |-> "Nao",
     salesChannel |-> "Instagram",
     deliveryLocation |-> "Retirada na Loja",
     paymentMethod |-> "PIX",
     installments |-> 1,
     cardFee |-> 0,
     saleNotes |-> None,
     date |-> now]

\* Faulty variant: the total is the unit price.
Sale_UnitTotal(product, product_id, quantity, unit_price, customer_name, now) ==
    SaleWith(product, product_id, quantity, unit_price, customer_name, now,
             unit_price[1])

Sale(product, product_id, quantity, unit_price, customer_name, now) ==
    SaleWith(product, product_id, quantity, unit_price, customer_name, now,
             unit_price[1] * quantity)

\* Faulty variants of the stock test: never insufficient; off by one.
Insufficient_Never(product, quantity) == FALSE

Insufficient_OffByOne(product, quantity) == product.estoque + 1 < quantity

\* if product['estoque'] < quantity
Insufficient(product, quantity) == product.estoque < quantity

\* `now' is the day datetime.now() falls on.
add_venda(product_id, quantity, unit_price, customer_name, now) ==
    LET product == get_perfume(product_id)
        i == IndexOf(perfumes, product_id)
    IN /\ op' = "add_venda"
       /\ IF product = None
          THEN /\ ret' = None
               /\ exc' = "none"
               /\ UNCHANGED <<state, hist>>
          ELSE IF Insufficient(product[1], quantity)
          THEN /\ ret' = None
               /\ exc' = "none"
               /\ UNCHANGED <<state, hist>>
          ELSE /\ product[1].estoque - quantity <= MaxStock
               /\ product[1].estoque - quantity >= -MaxStock
               \* product['estoque'] -= quantity, on the listed object
               /\ perfumes' = [perfumes EXCEPT ![i].estoque = @ - quantity]
               /\ IF unit_price = None
                  THEN \* None * quantity raises TypeError: the call ends here
                       /\ exc' = "TypeError"
                       /\ ret' = None
                       /\ UNCHANGED <<vendas, vendas_id_counter>>
                  ELSE LET sale == Sale(product[1], product_id, quantity,
                                        unit_price, customer_name, now)
                       IN /\ vendas_id_counter <= MaxVendas
                          /\ vendas' = Append(vendas, sale)
                          /\ vendas_id_counter' = vendas_id_counter + 1
                          /\ exc' = "none"
                          /\ ret' = Some(sale)
               /\ UNCHANGED <<perfume_id_counter, hist>>

get_total_items == SumEstoque(perfumes)

get_total_value == SumValue(perfumes)

call_get_total_items ==
    /\ op' = "get_total_items"
    /\ exc' = "none"
    /\ ret' = Some(get_total_items)
    /\ UNCHANGED <<state, hist>>

call_get_total_value ==
    /\ op' = "get_total_value"
    /\ exc' = "none"
    /\ ret' = Some(get_total_value)
    /\ UNCHANGED <<state, hist>>

get_sales_stats(today) ==
    [today_sales |-> SumTotalOn(vendas, today),
     total_sales |-> SumTotal(vendas),
     items_sold |-> SumQuantity(vendas),
     unique_customers |-> Cardinality(CustomerNameSet(vendas))]

call_get_sales_stats(today) ==
    /\ op' = "get_sales_stats"
    /\ exc' = "none"
    /\ ret' = Some(get_sales_stats(today))
    /\ UNCHANGED <<state, hist>>

(***************************************************************************)
(* Specifications                                                          *)
(***************************************************************************)
\* One caller's calls: the arguments range over the caller's values.
In == Inputs(caller)

AddPerfume ==
    /\ \E nome \in In.nomes, marca \in In.marcas, preco \in In.precos,
          estoque \in In.estoques, ml \in In.mls, categoria \in In.categorias,
          imagem \in In.imagens :
          add_perfume(nome, marca, preco, estoque, ml, categoria, imagem)
    /\ UNCHANGED caller

UpdatePerfume ==
    /\ \E id \in In.ids, nome \in In.u_nomes, marca \in In.u_marcas,
          preco \in In.u_precos, estoque \in In.u_estoques, ml \in In.u_mls,
          categoria \in In.u_categorias, imagem \in In.u_imagens :
          update_perfume(id, nome, marca, preco, estoque, ml, categoria, imagem)
    /\ UNCHANGED caller

DeletePerfume ==
    /\ \E id \in In.ids : delete_perfume(id)
    /\ UNCHANGED caller

GetPerfume ==
    /\ \E id \in In.ids : call_get_perfume(id)
    /\ UNCHANGED caller

AddVenda ==
    /\ \E product_id \in In.sale_ids, quantity \in In.quantities,
          unit_price \in In.unit_prices, customer_name \in In.customer_names,
          now \in In.days :
          add_venda(product_id, quantity, unit_price, customer_name, now)
    /\ UNCHANGED caller

GetTotalItems == call_get_total_items /\ UNCHANGED caller

GetTotalValue == call_get_total_value /\ UNCHANGED caller

GetSalesStats ==
    /\ \E today \in In.days : call_get_sales_stats(today)
    /\ UNCHANGED caller

Next ==
    \/ AddPerfume
    \/ UpdatePerfume
    \/ DeletePerfume
    \/ GetPerfume
    \/ AddVenda
    \/ GetTotalItems
    \/ GetTotalValue
    \/ GetSalesStats

SpecCatalog == InitCatalog /\ [][Next]_vars
SpecSales == InitSales /\ [][Next]_vars
SpecStats == InitStats /\ [][Next]_vars

(***************************************************************************)
(* Properties                                                              *)
(***************************************************************************)
\* The products of the list whose id is `id'.
Listed(id) == {i \in DOMAIN perfumes : perfumes[i].id = id}

\* Sum of f[k] over the indices k in S.
RECURSIVE SumOver(_, _)
SumOver(f, S) ==
    IF S = {} THEN 0
    ELSE LET k == CHOOSE x \in S : TRUE IN f[k] + SumOver(f, S \ {k})

\* The list `after' is the list `before' without its element at index i.
Removed(before, after, i) ==
    /\ Len(after) = Len(before) - 1
    /\ \A k \in DOMAIN after :
          after[k] = IF k < i THEN before[k] ELSE before[k + 1]

\* The list `after' is the list `before' but for the element at index i.
SameButAt(before, after, i) ==
    /\ Len(after) = Len(before)
    /\ \A k \in DOMAIN before : k # i => after[k] = before[k]

\* C1: the k-th successful add_perfume call returns the id k, whatever
\* updates, deletions and sales come in between; so the ids of the products
\* ever created are distinct and the id of a deleted product is not given
\* again.
C1_SequentialIds ==
    \A k \in DOMAIN created : created[k].id = k

\* A second product was added after the first one was deleted.
C1_Witness ==
    /\ op = "add_perfume"
    /\ Len(created) = 2
    /\ Len(perfumes) = 1
    /\ ret[1].id = 2

\* C2: add_venda for an id that is not in the list, or for more units than
\* the product has in stock, returns None and changes neither the products,
\* nor the sales, nor the two counters.
C2_RefusedSaleChangesNothing ==
    [][op' = "add_venda" =>
       \A product_id \in In.sale_ids, quantity \in In.quantities,
          unit_price \in In.unit_prices, customer_name \in In.customer_names,
          now \in In.days :
          ( /\ add_venda(product_id, quantity, unit_price, customer_name, now)
            /\ \/ Listed(product_id) = {}
               \/ \E i \in Listed(product_id) : perfumes[i].estoque < quantity )
          => (ret' = None /\ exc' = "none" /\ UNCHANGED state)]_vars

\* A sale was refused while product 1 was sold out.
C2_Witness ==
    /\ op = "add_venda"
    /\ ret = None
    /\ exc = "none"
    /\ vendas # <<>>
    /\ \E i \in Listed(1) : perfumes[i].estoque = 0

\* C3: add_venda returns a sale exactly when the product is listed, has at
\* least `quantity' units and the call does not raise.  Then the stock of
\* that product drops by quantity, nothing else changes in the products, and
\* one sale is appended: its total is unit_price * quantity, its name and
\* brand are those of the product at the call, its id is one more than the
\* id of the last sale (1 for the first).
C3_SaleRecorded ==
    [][op' = "add_venda" =>
       \A product_id \in In.sale_ids, quantity \in In.quantities,
          unit_price \in In.unit_prices, customer_name \in In.customer_names,
          now \in In.days :
          add_venda(product_id, quantity, unit_price, customer_name, now) =>
          /\ ( /\ \E i \in Listed(product_id) : perfumes[i].estoque >= quantity
               /\ unit_price # None )
             => (ret' # None /\ exc' = "none")
          /\ (ret' # None /\ exc' = "none") =>
             \E i \in Listed(product_id) :
                /\ perfumes[i].estoque >= quantity
                /\ SameButAt(perfumes, perfumes', i)
                /\ perfumes'[i] =
                      [perfumes[i] EXCEPT !.estoque = @ - quantity]
                /\ perfume_id_counter' = perfume_id_counter
                /\ Len(vendas') = Len(vendas) + 1
                /\ SubSeq(vendas', 1, Len(vendas)) = vendas
                /\ LET sale == vendas'[Len(vendas')]
                   IN /\ ret' = Some(sale)
                      /\ sale.productId = product_id
                      /\ sale.quantity = quantity
                      /\ sale.total = unit_price[1] * quantity
                      /\ sale.productName = perfumes[i].nome
                      /\ sale.productBrand = perfumes[i].marca
                      /\ sale.id = IF vendas = <<>> THEN 1
                                   ELSE vendas[Len(vendas)].id + 1]_vars

\* Two units of a renamed product were sold as the second sale, with a
\* second product in the list.
C3_Witness ==
    /\ op = "add_venda"
    /\ ret # None
    /\ Len(vendas) = 2
    /\ Len(perfumes) = 2
    /\ ret[1].quantity = 2
    /\ ret[1].productName = "Eau Sauvage"

\* C4: every add_venda call either decrements the stock and appends the
\* sale, or does neither, and never raises.
C4_AllOrNothing ==
    [][op' = "add_venda" =>
       \A product_id \in In.sale_ids, quantity \in In.quantities,
          unit_price \in In.unit_prices, customer_name \in In.customer_names,
          now \in In.days :
          add_venda(product_id, quantity, unit_price, customer_name, now) =>
          /\ exc' = "none"
          /\ vendas' = vendas => perfumes' = perfumes
          /\ vendas' # vendas =>
             \E i \in Listed(product_id) :
                /\ SameButAt(perfumes, perfumes', i)
                /\ perfumes'[i] =
                      [perfumes[i] EXCEPT !.estoque = @ - quantity]]_vars

\* C5, as claimed: every listed product has a stock of at least 0.
C5_StockNonNegative ==
    \A i \in DOMAIN perfumes : perfumes[i].estoque >= 0

\* C5, amended: as long as no negative stock was passed to add_perfume or
\* update_perfume, every listed product has a stock of at least 0, whatever
\* quantities add_venda was called with.
C5_StockNonNegativeUnlessGiven ==
    ~negStock => \A i \in DOMAIN perfumes : perfumes[i].estoque >= 0

\* A sale took the last units of a product, no negative stock ever given.
C5_Witness ==
    /\ ~negStock
    /\ op = "add_venda"
    /\ ret # None
    /\ \E i \in Listed(ret[1].productId) : perfumes[i].estoque = 0

\* C6: a recorded sale keeps its position and its fields through every later
\* call: the sales list only grows at its end.
C6_SalesAppendOnly ==
    [][/\ Len(vendas') >= Len(vendas)
       /\ SubSeq(vendas', 1, Len(vendas)) = vendas]_vars

\* A product with a recorded sale was renamed and then deleted, which left a
\* sale that names an id no longer listed.
C6_Witness ==
    /\ op = "delete_perfume"
    /\ ret # None
    /\ ret[1].nome = "Eau Sauvage"
    /\ \E k \in DOMAIN vendas :
          /\ vendas[k].productId = ret[1].id
          /\ vendas[k].productName = "Sauvage"

\* C7: update_perfume of a listed id replaces the fields whose argument is
\* not None by the argument, zero values included, and leaves the other
\* fields, the id, the other products, the order, the sales and the counters
\* as they were; it returns the record.
C7_UpdateOverwritesSupplied ==
    [][op' = "update_perfume" =>
       \A id \in {x \in In.ids : Listed(x) # {}}, nome \in In.u_nomes,
          marca \in In.u_marcas, preco \in In.u_precos,
          estoque \in In.u_estoques, ml \in In.u_mls,
          categoria \in In.u_categorias, imagem \in In.u_imagens :
          update_perfume(id, nome, marca, preco, estoque, ml, categoria, imagem)
          => \E i \in Listed(id) :
                LET old == perfumes[i]
                    new == perfumes'[i]
                IN /\ SameButAt(perfumes, perfumes', i)
                   /\ ret' = Some(new)
                   /\ new.id = old.id
                   /\ new.nome = (IF nome = None THEN old.nome ELSE nome[1])
                   /\ new.marca = (IF marca = None THEN old.marca ELSE marca[1])
                   /\ new.preco = (IF preco = None THEN old.preco ELSE preco[1])
                   /\ new.estoque =
                         (IF estoque = None THEN old.estoque ELSE estoque[1])
                   /\ new.ml = (IF ml = None THEN old.ml ELSE ml[1])
                   /\ new.categoria =
                         (IF categoria = None THEN old.categoria
                          ELSE categoria[1])
                   /\ new.imagem =
                         (IF imagem = None THEN old.imagem ELSE imagem)
                   /\ UNCHANGED <<vendas, perfume_id_counter,
                                  vendas_id_counter>>]_vars

\* The second of two products was given the empty name and the stock 0 and
\* kept its price.
C7_Witness ==
    /\ op = "update_perfume"
    /\ ret # None
    /\ Len(perfumes) = 2
    /\ perfumes[2] = ret[1]
    /\ ret[1].nome = ""
    /\ ret[1].estoque = 0
    /\ ret[1].preco = 380
    /\ perfumes[1].nome = "Sauvage"

C9_SalesStats ==
    [][op' = "get_sales_stats" =>
          /\ UNCHANGED state
          /\ ret'[1].unique_customers =
                Cardinality({vendas[k].customerName : k \in DOMAIN vendas}
                            \ {None, Some("")})
          /\ ret'[1].total_sales =
                SumOver([k \in DOMAIN vendas |-> vendas[k].total],
                        DOMAIN vendas)
          /\ ret'[1].items_sold =
                SumOver([k \in DOMAIN vendas |-> vendas[k].quantity],
                        DOMAIN vendas)]_vars

\* The statistics of two sales, one to Ana and one to a customer with an
\* empty name or none.
C9_Witness ==
    /\ op = "get_sales_stats"
    /\ Len(vendas) = 2
    /\ vendas[1].customerName = Some("Ana")
    /\ ~Truthy(vendas[2].customerName)
    /\ ret[1].unique_customers = 1
    /\ ret[1].items_sold = 4

\* C10: for every listed product whose stock was never set by
\* update_perfume, the stock given to add_perfume is the current stock plus
\* the quantities of the sales of that product.
C10_StockConservation ==
    \A i \in DOMAIN perfumes :
       perfumes[i].id \notin stockSet =>
       \A k \in DOMAIN created :
          created[k].id = perfumes[i].id =>
          created[k].estoque =
             perfumes[i].estoque
             + SumOver([j \in DOMAIN vendas |->
                          IF vendas[j].productId = perfumes[i].id
                          THEN vendas[j].quantity ELSE 0],
                       DOMAIN vendas)
====
